---- MODULE Spec2Model ----
(***************************************************************************)
(* voltron/core.py: the Server, its ServerThread event loops (one per      *)
(* enabled socket transport), the request dispatcher                       *)
(* (Server.handle_request / Server.dispatch_request) and the background    *)
(* threads spawned for 'wait' requests.                                    *)
(***************************************************************************)
EXTENDS Integers, Sequences, FiniteSets, TLC

\* ------------------------------------------------------------------ bounds
MaxConns == 2       \* peers that ever connect, one transport enabled
MaxReqs  == 2       \* messages the peers ever send, all connections together
MaxConnsBoth == 1   \* peers that ever connect, both transports enabled
MaxHttp == 2        \* calls the HTTP front end ever makes
MaxCalls == 2       \* calls of send_request a Client ever makes
MaxEintr == 2       \* interrupts of one send or one receive of a Client

\* ------------------------------------------------------------- identifiers
Loops == {"d", "t"}            \* domain-socket loop, TCP loop
Fronts == Loops \cup {"h"}     \* the transports of the listen configuration
Conns == 1 .. MaxConns         \* ClientSocket objects, by identity
SERV  == 0                     \* the fd 'serv' in the select list
EXITP == -1                    \* the fd 'self.exit_pipe' in the select list

VARIABLES
    listen,     \* voltron.config['server']['listen']: the enabled transports
    debugger,   \* voltron.debugger is set
    started,    \* Server.start has run
    clients,    \* Server.clients, the list every ServerThread receives
    loop,       \* [Loops -> the frame of ServerThread.run]
    serv,       \* [Loops -> "none" | "listening" | "closed"]
    backlog,    \* [Loops -> connections waiting in the listener's queue]
    exitPipe,   \* [Loops -> [bytes, open]]: unread bytes, read end open
    sockFile,   \* the domain socket file exists on disk
    conn,       \* [Conns -> the connection: socket state, peer, traffic]
    workers,    \* the background threads of 'wait' requests
    stopper,    \* position of Server.stop
    sent,       \* messages sent so far
    http,       \* the HTTP front end and its call of Server.handle_request
    cli         \* a Client object and its call of connect or send_request

vars == << listen, debugger, started, clients, loop, serv, backlog, exitPipe,
           sockFile, conn, workers, stopper, sent, http, cli >>

\* ------------------------------------------------------------------ values
\* A request on the wire.  env: the generic envelope parses; kind: the
\* request type; missing: the required field validate() finds absent ("" if
\* none); raises: the handler raises.
Malformed == [env |-> FALSE, kind |-> "", missing |-> "", raises |-> FALSE]

Payloads ==
    { Malformed,
      [env |-> TRUE,  kind |-> "bogus",   missing |-> "",        raises |-> FALSE],
      [env |-> TRUE,  kind |-> "bogus",   missing |-> "name",    raises |-> FALSE],
      [env |-> TRUE,  kind |-> "version", missing |-> "",        raises |-> FALSE],
      [env |-> TRUE,  kind |-> "version", missing |-> "name",    raises |-> FALSE],
      [env |-> TRUE,  kind |-> "version", missing |-> "",        raises |-> TRUE],
      [env |-> TRUE,  kind |-> "wait",    missing |-> "",        raises |-> FALSE],
      [env |-> TRUE,  kind |-> "wait",    missing |-> "timeout", raises |-> FALSE],
      [env |-> TRUE,  kind |-> "wait",    missing |-> "",        raises |-> TRUE] }

Msg(p, c, n) == [env |-> p.env, kind |-> p.kind, missing |-> p.missing,
                 raises |-> p.raises, conn |-> c, id |-> n]

NoData == [env |-> FALSE, kind |-> "", missing |-> "", raises |-> FALSE,
           conn |-> 0, id |-> 0]

\* Responses.
Res(code, arg) == [code |-> code, arg |-> arg]
None == Res("None", "")

\* What one call of the dispatcher did: the steps that ran, the response.
NoRet == [stages |-> {}, res |-> None]

\* The kinds the plugin manager has a request class for.
Registered == {"version", "wait"}

Remove(s, x) == SelectSeq(s, LAMBDA y : y # x)
Range(s) == { s[k] : k \in 1 .. Len(s) }

\* ------------------------------------------------------- the dispatcher
\* A variant of the preprocessing that parses before it looks for the
\* debugger.
PreflightParseFirst(d) ==
    IF d.env
    THEN IF debugger
         THEN IF d.kind \in Registered
              THEN [res |-> None, stages |-> {"parse", "create"}]
              ELSE [res |-> Res("PluginNotFoundError", ""),
                    stages |-> {"parse", "create"}]
         ELSE [res |-> Res("DebuggerNotPresentError", ""), stages |-> {"parse"}]
    ELSE [res |-> Res("InvalidRequestError", ""), stages |-> {"parse"}]

\* A variant of the preprocessing that takes a request of any kind on to
\* dispatch_request.
PreflightAnyKind(d) ==
    IF debugger
    THEN IF d.env
         THEN [res |-> None, stages |-> {"parse", "create"}]
         ELSE [res |-> Res("InvalidRequestError", ""), stages |-> {"parse"}]
    ELSE [res |-> Res("DebuggerNotPresentError", ""), stages |-> {}]

\* Server.handle_request, preprocessing: the debugger check, the parse of
\* the generic envelope and the lookup of the request class.  'stages'
\* records the steps that ran.
Preflight(d) ==
    IF debugger
    THEN IF d.env
         THEN IF d.kind \in Registered
              THEN [res |-> None, stages |-> {"parse", "create"}]
              ELSE [res |-> Res("PluginNotFoundError", ""),
                    stages |-> {"parse", "create"}]
         ELSE [res |-> Res("InvalidRequestError", ""), stages |-> {"parse"}]
    ELSE [res |-> Res("DebuggerNotPresentError", ""), stages |-> {}]

\* A variant in which no request goes to a background thread.
IsWaitNever(req) == FALSE

\* 'req and req.request == "wait"': the request goes to a background thread.
IsWait(req) == req.kind = "wait"

\* req.validate(): the required field found missing, "" when none is.
Validate(req) == req.missing

\* req.dispatch(): the handler returns its response, or raises.
Execute(req) == IF req.raises THEN "raise" ELSE "ok"

\* A variant of dispatch_request that goes on to the handler after a failed
\* validation.
DispatchRequestNoReturn(req) ==
    IF Execute(req) = "raise"
    THEN [res |-> Res("GenericError", "Exception raised while dispatching request"),
          stages |-> {"validate", "dispatch"}]
    ELSE [res |-> Res("Success", req.kind), stages |-> {"validate", "dispatch"}]

\* A variant of dispatch_request without the 'except Exception' around the
\* handler: what the handler raised is what comes out.
DispatchRequestNoCatch(req) ==
    IF Validate(req) # ""
    THEN [res |-> Res("MissingFieldError", Validate(req)), stages |-> {"validate"}]
    ELSE IF Execute(req) = "raise"
         THEN [res |-> Res("Exception", ""), stages |-> {"validate", "dispatch"}]
         ELSE [res |-> Res("Success", req.kind), stages |-> {"validate", "dispatch"}]

\* Server.dispatch_request, validation and execution.
DispatchRequest(req) ==
    IF Validate(req) # ""
    THEN [res |-> Res("MissingFieldError", Validate(req)), stages |-> {"validate"}]
    ELSE IF Execute(req) = "raise"
         THEN [res |-> Res("GenericError", "Exception raised while dispatching request"),
               stages |-> {"validate", "dispatch"}]
         ELSE [res |-> Res("Success", req.kind), stages |-> {"validate", "dispatch"}]

\* What a write leaves on the connection: the request answered, the writer.
Entry(req, by) == [conn |-> req.conn, id |-> req.id, by |-> by]

\* client.send_response(...) inside 'try ... except socket.error': the
\* response reaches the peer of a socket that is open at both ends; the
\* error of a closed socket or a gone peer is logged and dropped.
SendResponse(cn, c, e) ==
    IF cn[c].st = "open" /\ cn[c].peer
    THEN [cn EXCEPT ![c].outbox = Append(@, e)]
    ELSE cn

\* ------------------------------------------------------------ event loop
NumAccepted == Cardinality({ c \in Conns : conn[c].st \in {"open", "closed"} })

Readable(c) == conn[c].inbox # <<>> \/ ~conn[c].peer

\* select.select([serv, self.exit_pipe] + self.clients, [], []): the ready
\* objects, in the order of the list passed.
Ready(l) ==
    (IF backlog[l] # <<>> THEN <<SERV>> ELSE <<>>)
    \o (IF exitPipe[l].bytes > 0 THEN <<EXITP>> ELSE <<>>)
    \o SelectSeq(clients, Readable)

\* A closed ClientSocket in the list: fileno() is -1 and select raises
\* ValueError, which 'except select.error' does not catch.
BadFd == \E c \in Range(clients) : conn[c].st = "closed"

\* What one recv(READ_MAX) returns.  A single unread message comes as the
\* peer wrote it, of shape p; the blocks of several sends still unread
\* come together, and their concatenation is no well-formed envelope.
Received(inbox, p, c) ==
    IF Len(inbox) = 1 THEN Msg(p, c, inbox[1]) ELSE Msg(Malformed, c, inbox[1])

NewLoop == [pc |-> "none", attempts |-> <<>>, rfds |-> <<>>, pos |-> 0,
            data |-> NoData, ret |-> NoRet, cur |-> 0, ci |-> 0,
            phase |-> "run", crash |-> ""]

\* The end of one pass of 'for fd in rfds': the next fd, or the next
\* iteration of 'while running' (which assigns rfds before it reads it).
Advance(r) ==
    IF r.pos < Len(r.rfds)
    THEN [r EXCEPT !.pc = "iter", !.pos = @ + 1, !.cur = 0, !.data = NoData,
                   !.ret = NoRet]
    ELSE [r EXCEPT !.pc = "select", !.pos = 0, !.rfds = <<>>, !.cur = 0,
                   !.data = NoData, !.ret = NoRet]

\* The return of purge_client to its caller.
Return(r) ==
    IF r.phase = "run" THEN Advance(r) ELSE [r EXCEPT !.pc = "cleanup", !.cur = 0]

\* An exception leaves run().
Raise(r, e) == [r EXCEPT !.pc = "crashed", !.crash = e]

\* ------------------------------------------------------------------- init
\* The HTTP front end: the cherrypy engine ("off" | "on" | "exited"), the
\* position of its current call of handle_request, the data passed, the
\* value the call returned, and the calls made so far.
NewHttp == [engine |-> "off", pc |-> "idle", data |-> NoData, value |-> None,
            calls |-> 0]

\* Client.__init__: self.sock = None; no call is running.  kind: the kind
\* of the request being sent; got: the message received; res: the local
\* 'res' of send_request; exc: what the last call raised; eintr: the
\* interrupts of the current send or receive.
NewClient == [sock |-> FALSE, pc |-> "idle", kind |-> "", got |-> "",
              res |-> "unset", exc |-> "", eintr |-> 0, calls |-> 0]

NewConn == [st |-> "unused", peer |-> FALSE, inbox |-> <<>>, outbox |-> <<>>,
            by |-> "", ord |-> 0]

InitWith(cfgs) ==
    /\ listen \in cfgs
    /\ debugger \in BOOLEAN
    /\ started = FALSE
    /\ clients = <<>>
    /\ loop = [l \in Loops |-> NewLoop]
    /\ serv = [l \in Loops |-> "none"]
    /\ backlog = [l \in Loops |-> <<>>]
    /\ exitPipe = [l \in Loops |-> [bytes |-> 0, open |-> TRUE]]
    /\ sockFile = FALSE
    /\ conn = [c \in Conns |-> NewConn]
    /\ workers = {}
    /\ stopper = "idle"
    /\ sent = 0
    /\ http = NewHttp
    /\ cli = NewClient

\* One transport enabled, the domain socket or TCP.
Init == InitWith({{"d"}, {"t"}})

\* Both transports enabled.
InitBoth == InitWith({{"d", "t"}})

\* ----------------------------------------------------------------- server
\* Server.start: one ServerThread per enabled transport, each given the
\* same list self.clients.
Start ==
    /\ ~started
    /\ started' = TRUE
    /\ loop' = [l \in Loops |->
                 IF l \in listen THEN [loop[l] EXCEPT !.pc = "created"] ELSE loop[l]]
    /\ http' = IF "h" \in listen THEN [http EXCEPT !.engine = "on"] ELSE http
    /\ UNCHANGED << cli, listen, debugger, clients, serv, backlog, exitPipe, sockFile,
                    conn, workers, stopper, sent >>

\* ServerThread.run up to the loop: cleanup_socket, ServerSocket(self.sock).
RunBegin(l) ==
    /\ loop[l].pc = "created"
    /\ loop' = [loop EXCEPT ![l].pc = "select"]
    /\ serv' = [serv EXCEPT ![l] = "listening"]
    /\ sockFile' = IF l = "d" THEN TRUE ELSE sockFile
    /\ UNCHANGED << http, cli, listen, debugger, started, clients, backlog, exitPipe, conn,
                    workers, stopper, sent >>

\* One attempt of the select succeeds.  There is no break after it: the
\* 'for i in range(3)' goes on to the next attempt, and the for loop over
\* rfds begins after the third.
SelectOk(l) ==
    /\ loop[l].pc = "select"
    /\ ~BadFd
    /\ Ready(l) # <<>>
    /\ loop' = [loop EXCEPT ![l] =
                 IF Len(@.attempts) = 2
                 THEN [@ EXCEPT !.rfds = Ready(l), !.attempts = <<>>,
                                !.pc = "iter", !.pos = 1]
                 ELSE [@ EXCEPT !.rfds = Ready(l), !.attempts = Append(@, "ok")]]
    /\ UNCHANGED << http, cli, listen, debugger, started, clients, serv, backlog, exitPipe,
                    sockFile, conn, workers, stopper, sent >>

\* One attempt of the select, blocked with nothing ready, is interrupted by
\* a signal: 'continue' unless i is 2, and then 'raise'.
SelectEintr(l) ==
    /\ loop[l].pc = "select"
    /\ ~BadFd
    /\ Ready(l) = <<>>
    /\ loop' = [loop EXCEPT ![l] =
                 IF Len(@.attempts) # 2
                 THEN [@ EXCEPT !.attempts = Append(@, "eintr")]
                 ELSE Raise([@ EXCEPT !.attempts = Append(@, "eintr")],
                            "select.error")]
    /\ UNCHANGED << http, cli, listen, debugger, started, clients, serv, backlog, exitPipe,
                    sockFile, conn, workers, stopper, sent >>

\* The select is given a ClientSocket that another thread has closed.
SelectBadFd(l) ==
    /\ loop[l].pc = "select"
    /\ BadFd
    /\ loop' = [loop EXCEPT ![l] = Raise(@, "ValueError")]
    /\ UNCHANGED << http, cli, listen, debugger, started, clients, serv, backlog, exitPipe,
                    sockFile, conn, workers, stopper, sent >>

\* fd == serv: accept a connection and append it to self.clients.
IterAccept(l) ==
    /\ loop[l].pc = "iter"
    /\ loop[l].rfds[loop[l].pos] = SERV
    /\ backlog[l] # <<>>
    /\ LET c == Head(backlog[l]) IN
         /\ conn' = [conn EXCEPT ![c].st = "open", ![c].by = l,
                                 ![c].ord = NumAccepted + 1]
         /\ clients' = Append(clients, c)
    /\ backlog' = [backlog EXCEPT ![l] = Tail(@)]
    /\ loop' = [loop EXCEPT ![l] = Advance(@)]
    /\ UNCHANGED << http, cli, listen, debugger, started, serv, exitPipe, sockFile, workers,
                    stopper, sent >>

\* A variant of a failing accept in a run() that closes its listener on the
\* way out.
IterAcceptFailClosing(l) ==
    /\ loop[l].pc = "iter"
    /\ loop[l].rfds[loop[l].pos] = SERV
    /\ loop' = [loop EXCEPT ![l] = Raise(@, "socket.error")]
    /\ serv' = [serv EXCEPT ![l] = "closed"]
    /\ UNCHANGED << http, cli, listen, debugger, started, clients, backlog,
                    exitPipe, sockFile, conn, workers, stopper, sent >>

\* fd == serv: self.sock.accept() raises socket.error, which nothing in
\* ServerSocket.accept or in run() catches.
IterAcceptFail(l) ==
    /\ loop[l].pc = "iter"
    /\ loop[l].rfds[loop[l].pos] = SERV
    /\ loop' = [loop EXCEPT ![l] = Raise(@, "socket.error")]
    /\ UNCHANGED << http, cli, listen, debugger, started, clients, serv, backlog,
                    exitPipe, sockFile, conn, workers, stopper, sent >>

\* A variant of the exit branch without the break: the for loop goes on
\* over the ready set.
IterExitNoBreak(l) ==
    /\ loop[l].pc = "iter"
    /\ loop[l].rfds[loop[l].pos] = EXITP
    /\ exitPipe[l].bytes > 0
    /\ exitPipe' = [exitPipe EXCEPT ![l].bytes = @ - 1]
    /\ loop' = [loop EXCEPT ![l] = Advance([@ EXCEPT !.phase = "drain"])]
    /\ UNCHANGED << http, cli, listen, debugger, started, clients, serv, backlog,
                    sockFile, conn, workers, stopper, sent >>

\* fd == self.exit_pipe: read the byte, running = False, break; the
\* clean-up loop 'for client in self.clients' begins.
IterExit(l) ==
    /\ loop[l].pc = "iter"
    /\ loop[l].rfds[loop[l].pos] = EXITP
    /\ exitPipe[l].bytes > 0
    /\ exitPipe' = [exitPipe EXCEPT ![l].bytes = @ - 1]
    /\ loop' = [loop EXCEPT ![l] = [@ EXCEPT !.pc = "cleanup", !.phase = "drain",
                                             !.ci = 0, !.rfds = <<>>, !.pos = 0]]
    /\ UNCHANGED << http, cli, listen, debugger, started, clients, serv, backlog, sockFile,
                    conn, workers, stopper, sent >>

\* fd is a client: fd.recv_request() returns a request.  The peer chose the
\* content p of its message; the server first looks at it here.
IterRecv(l, p) ==
    /\ loop[l].pc = "iter"
    /\ loop[l].rfds[loop[l].pos] \in Conns
    /\ LET c == loop[l].rfds[loop[l].pos] IN
         /\ conn[c].st = "open"
         /\ conn[c].inbox # <<>>
         /\ Len(conn[c].inbox) > 1 => p = Malformed
         /\ loop' = [loop EXCEPT ![l] = [@ EXCEPT !.pc = "handle", !.cur = c,
                                          !.data = Received(conn[c].inbox, p, c)]]
         /\ conn' = [conn EXCEPT ![c].inbox = <<>>]
    /\ UNCHANGED << http, cli, listen, debugger, started, clients, serv, backlog, exitPipe,
                    sockFile, workers, stopper, sent >>

\* fd is a client: fd.recv_request() raises (SocketDisconnected on a read of
\* nothing from a peer that closed, socket.error on a socket closed
\* meanwhile); the except clause calls purge_client(fd).
IterRecvFail(l) ==
    /\ loop[l].pc = "iter"
    /\ loop[l].rfds[loop[l].pos] \in Conns
    /\ LET c == loop[l].rfds[loop[l].pos] IN
         /\ \/ conn[c].st = "closed"
            \/ conn[c].inbox = <<>> /\ ~conn[c].peer
         /\ loop' = [loop EXCEPT ![l] = [@ EXCEPT !.pc = "purge", !.cur = c]]
    /\ UNCHANGED << http, cli, listen, debugger, started, clients, serv, backlog, exitPipe,
                    sockFile, conn, workers, stopper, sent >>

\* fd is a client: the peer sent only whitespace; recv_request strips it,
\* finds len(data) == 0 and raises SocketDisconnected; the except clause
\* calls purge_client(fd).
IterRecvBlank(l) ==
    /\ loop[l].pc = "iter"
    /\ loop[l].rfds[loop[l].pos] \in Conns
    /\ LET c == loop[l].rfds[loop[l].pos] IN
         /\ conn[c].st = "open"
         /\ conn[c].inbox # <<>>
         /\ loop' = [loop EXCEPT ![l] = [@ EXCEPT !.pc = "purge", !.cur = c]]
         /\ conn' = [conn EXCEPT ![c].inbox = <<>>]
    /\ UNCHANGED << http, cli, listen, debugger, started, clients, serv, backlog,
                    exitPipe, sockFile, workers, stopper, sent >>

\* self.server.handle_request(data, fd): preprocessing produced an error
\* response, which is written to the client.
HandleError(l) ==
    /\ loop[l].pc = "handle"
    /\ Preflight(loop[l].data).res # None
    /\ conn' = SendResponse(conn, loop[l].cur, Entry(loop[l].data, "loop"))
    /\ loop' = [loop EXCEPT ![l] = [@ EXCEPT !.pc = "handled",
                                             !.ret = Preflight(loop[l].data)]]
    /\ UNCHANGED << http, cli, listen, debugger, started, clients, serv, backlog, exitPipe,
                    sockFile, workers, stopper, sent >>

\* handle_request of a 'wait' request: threading.Thread(target=
\* self.dispatch_request, args=[req, client]).start(); nothing is written.
HandleWait(l) ==
    /\ loop[l].pc = "handle"
    /\ Preflight(loop[l].data).res = None
    /\ IsWait(loop[l].data)
    /\ workers' = workers \cup {[client |-> loop[l].cur, req |-> loop[l].data,
                                 born |-> NumAccepted, done |-> FALSE, ret |-> NoRet]}
    /\ loop' = [loop EXCEPT ![l] = [@ EXCEPT !.pc = "handled",
                  !.ret = [stages |-> Preflight(loop[l].data).stages \cup {"spawn"},
                           res |-> None]]]
    /\ UNCHANGED << http, cli, listen, debugger, started, clients, serv, backlog, exitPipe,
                    sockFile, conn, stopper, sent >>

\* A variant of the dispatch on the loop's thread without the 'except
\* socket.error' around the write: the error of a write to a gone peer
\* reaches the except clause of the loop.
HandleSyncNoCatch(l) ==
    /\ loop[l].pc = "handle"
    /\ Preflight(loop[l].data).res = None
    /\ ~IsWait(loop[l].data)
    /\ LET dr == DispatchRequest(loop[l].data)
           c == loop[l].cur IN
         /\ conn' = SendResponse(conn, c, Entry(loop[l].data, "loop"))
         /\ loop' = [loop EXCEPT ![l] =
                      IF conn[c].st = "open" /\ conn[c].peer
                      THEN [@ EXCEPT !.pc = "handled",
                              !.ret = [stages |-> Preflight(loop[l].data).stages
                                                  \cup dr.stages,
                                       res |-> dr.res]]
                      ELSE [@ EXCEPT !.pc = "purge"]]
    /\ UNCHANGED << http, cli, listen, debugger, started, clients, serv, backlog,
                    exitPipe, sockFile, workers, stopper, sent >>

\* handle_request of any other request: self.dispatch_request(req, client)
\* on the loop's thread, the response written before the call returns.
HandleSync(l) ==
    /\ loop[l].pc = "handle"
    /\ Preflight(loop[l].data).res = None
    /\ ~IsWait(loop[l].data)
    /\ LET dr == DispatchRequest(loop[l].data) IN
         /\ conn' = SendResponse(conn, loop[l].cur, Entry(loop[l].data, "loop"))
         /\ loop' = [loop EXCEPT ![l] = [@ EXCEPT !.pc = "handled",
                      !.ret = [stages |-> Preflight(loop[l].data).stages \cup dr.stages,
                               res |-> dr.res]]]
    /\ UNCHANGED << http, cli, listen, debugger, started, clients, serv, backlog, exitPipe,
                    sockFile, workers, stopper, sent >>

\* handle_request has returned: the for loop goes on.
HandleReturn(l) ==
    /\ loop[l].pc = "handled"
    /\ loop' = [loop EXCEPT ![l] = Advance(@)]
    /\ UNCHANGED << http, cli, listen, debugger, started, clients, serv, backlog, exitPipe,
                    sockFile, conn, workers, stopper, sent >>

\* A variant of the thread that is started without the client: the response
\* is computed and written nowhere.
WorkerDispatchNoClient(w) ==
    /\ w \in workers
    /\ ~w.done
    /\ workers' = (workers \ {w})
                  \cup {[w EXCEPT !.done = TRUE, !.ret = DispatchRequest(w.req)]}
    /\ UNCHANGED << http, cli, listen, debugger, started, clients, loop, serv, backlog,
                    exitPipe, sockFile, conn, stopper, sent >>

\* The thread of a 'wait' request: dispatch_request(req, client) runs the
\* validation and the handler and writes the response to the client; with no
\* client (0) it returns the response, which the thread drops.
WorkerDispatch(w) ==
    /\ w \in workers
    /\ ~w.done
    /\ conn' = IF w.client = 0 THEN conn
               ELSE SendResponse(conn, w.client, Entry(w.req, "thread"))
    /\ workers' = (workers \ {w})
                  \cup {[w EXCEPT !.done = TRUE, !.ret = DispatchRequest(w.req)]}
    /\ UNCHANGED << http, cli, listen, debugger, started, clients, loop, serv, backlog,
                    exitPipe, sockFile, stopper, sent >>

\* dispatch_request returns in the thread, which ends.
WorkerExit(w) ==
    /\ w \in workers
    /\ w.done
    /\ workers' = workers \ {w}
    /\ UNCHANGED << http, cli, listen, debugger, started, clients, loop, serv, backlog,
                    exitPipe, sockFile, conn, stopper, sent >>

\* purge_client, first half: client.close() (its failure ignored) and the
\* test 'client in self.clients'.
PurgeClose(l) ==
    /\ loop[l].pc = "purge"
    /\ conn' = [conn EXCEPT ![loop[l].cur].st = "closed"]
    /\ loop' = [loop EXCEPT ![l] =
                 IF @.cur \in Range(clients) THEN [@ EXCEPT !.pc = "remove"]
                 ELSE Return(@)]
    /\ UNCHANGED << http, cli, listen, debugger, started, clients, serv, backlog, exitPipe,
                    sockFile, workers, stopper, sent >>

\* purge_client, second half: self.clients.remove(client).
PurgeRemove(l) ==
    /\ loop[l].pc = "remove"
    /\ loop[l].cur \in Range(clients)
    /\ clients' = Remove(clients, loop[l].cur)
    /\ loop' = [loop EXCEPT ![l] = Return(@)]
    /\ UNCHANGED << http, cli, listen, debugger, started, serv, backlog, exitPipe, sockFile,
                    conn, workers, stopper, sent >>

\* self.clients.remove(client) of a client another thread removed since the
\* test: ValueError, raised out of run().
PurgeRemoveGone(l) ==
    /\ loop[l].pc = "remove"
    /\ loop[l].cur \notin Range(clients)
    /\ loop' = [loop EXCEPT ![l] = Raise(@, "ValueError")]
    /\ UNCHANGED << http, cli, listen, debugger, started, clients, serv, backlog, exitPipe,
                    sockFile, conn, workers, stopper, sent >>

\* 'for client in self.clients: self.purge_client(client)': the list
\* iterator yields the element at its index and moves on by one, over the
\* list as it is now.
CleanupNext(l) ==
    /\ loop[l].pc = "cleanup"
    /\ loop[l].ci < Len(clients)
    /\ loop' = [loop EXCEPT ![l] = [@ EXCEPT !.pc = "purge", !.ci = @ + 1,
                                             !.cur = clients[loop[l].ci + 1]]]
    /\ UNCHANGED << http, cli, listen, debugger, started, clients, serv, backlog, exitPipe,
                    sockFile, conn, workers, stopper, sent >>

\* The iterator is exhausted: os.close(self.exit_pipe), serv.close(),
\* self.cleanup_socket().
CleanupFinish(l) ==
    /\ loop[l].pc = "cleanup"
    /\ loop[l].ci >= Len(clients)
    /\ exitPipe' = [exitPipe EXCEPT ![l].open = FALSE]
    /\ serv' = [serv EXCEPT ![l] = "closed"]
    /\ sockFile' = IF l = "d" THEN FALSE ELSE sockFile
    /\ loop' = [loop EXCEPT ![l].pc = "stopped"]
    /\ UNCHANGED << http, cli, listen, debugger, started, clients, backlog, conn, workers,
                    stopper, sent >>

\* Server.stop: 'if self.d_thread: os.write(self.d_exit_in, ...)'.
StopDomain ==
    /\ started
    /\ stopper = "idle"
    /\ stopper' = "join_d"
    /\ exitPipe' = IF "d" \in listen
                   THEN [exitPipe EXCEPT !["d"].bytes = @ + 1] ELSE exitPipe
    /\ UNCHANGED << http, cli, listen, debugger, started, clients, loop, serv, backlog,
                    sockFile, conn, workers, sent >>

\* self.d_thread.join(10) has returned, the thread ended or not;
\* 'if self.t_thread: os.write(self.t_exit_in, ...)'.
StopTcp ==
    /\ stopper = "join_d"
    /\ stopper' = "join_t"
    /\ exitPipe' = IF "t" \in listen
                   THEN [exitPipe EXCEPT !["t"].bytes = @ + 1] ELSE exitPipe
    /\ UNCHANGED << http, cli, listen, debugger, started, clients, loop, serv, backlog,
                    sockFile, conn, workers, sent >>

\* A variant of the end of stop that leaves the HTTP front end running.
StopEndNoHttp ==
    /\ stopper = "join_t"
    /\ stopper' = "done"
    /\ UNCHANGED << http, cli, listen, debugger, started, clients, loop, serv,
                    backlog, exitPipe, sockFile, conn, workers, sent >>

\* self.t_thread.join(10) has returned; 'if self.h_thread:
\* self.h_thread.stop()', which is cherrypy.engine.exit(); stop ends.
StopEnd ==
    /\ stopper = "join_t"
    /\ stopper' = "done"
    /\ http' = IF "h" \in listen THEN [http EXCEPT !.engine = "exited"] ELSE http
    /\ UNCHANGED << cli, listen, debugger, started, clients, loop, serv, backlog,
                    exitPipe, sockFile, conn, workers, sent >>

\* ------------------------------------------------------- HTTP front end
\* The HTTP front end calls server.handle_request(data), no client given.
HttpRequest(p) ==
    /\ http.engine = "on"
    /\ http.pc \in {"idle", "returned"}
    /\ http.calls < MaxHttp
    /\ http' = [http EXCEPT !.pc = "handle", !.calls = @ + 1, !.value = None,
                            !.data = Msg(p, 0, http.calls + 1)]
    /\ UNCHANGED << cli, listen, debugger, started, clients, loop, serv, backlog,
                    exitPipe, sockFile, conn, workers, stopper, sent >>

\* handle_request(data): preprocessing produced an error response;
\* 'if client: ... else: return res'.
HttpHandleError ==
    /\ http.pc = "handle"
    /\ Preflight(http.data).res # None
    /\ http' = [http EXCEPT !.pc = "returned", !.value = Preflight(http.data).res]
    /\ UNCHANGED << cli, listen, debugger, started, clients, loop, serv, backlog,
                    exitPipe, sockFile, conn, workers, stopper, sent >>

\* handle_request(data) of a 'wait' request: the thread is started with
\* args=[req, None], and the call falls off the end of handle_request.
HttpHandleWait ==
    /\ http.pc = "handle"
    /\ Preflight(http.data).res = None
    /\ IsWait(http.data)
    /\ workers' = workers \cup {[client |-> 0, req |-> http.data,
                                 born |-> NumAccepted, done |-> FALSE, ret |-> NoRet]}
    /\ http' = [http EXCEPT !.pc = "returned", !.value = None]
    /\ UNCHANGED << cli, listen, debugger, started, clients, loop, serv, backlog,
                    exitPipe, sockFile, conn, stopper, sent >>

\* handle_request(data) of any other request: 'return
\* self.dispatch_request(req, client)', which returns the response.
HttpHandleSync ==
    /\ http.pc = "handle"
    /\ Preflight(http.data).res = None
    /\ ~IsWait(http.data)
    /\ http' = [http EXCEPT !.pc = "returned", !.value = DispatchRequest(http.data).res]
    /\ UNCHANGED << cli, listen, debugger, started, clients, loop, serv, backlog,
                    exitPipe, sockFile, conn, workers, stopper, sent >>

\* ----------------------------------------------------------------- client
\* What self.sock.recv(READ_MAX) gives a Client: nothing (the peer closed);
\* text that is no response envelope; an error response; a success
\* response that the response class of the plugin parses; a success
\* response that it does not parse.
Shapes == {"empty", "garbage", "error", "plain", "odd"}

\* The kinds of request a Client sends: one whose plugin has a response
\* class, one that has no plugin.
Kinds == {"version", "bogus"}

\* send_request, 'if len(data) > 0: try: ... except Exception': the value
\* of 'res' after it.  'res' holds None, the result of sendall, until one
\* of the three assignments is reached.
Parsed(shape, kind) ==
    IF shape = "garbage" THEN "None"
    ELSE IF shape = "error" THEN "APIErrorResponse"
    ELSE IF kind \in Registered
         THEN IF shape = "plain" THEN "PluginResponse" ELSE "None"
         ELSE "APIResponse"

\* No call of the Client is running.
AtRest == cli.pc \in {"idle", "returned", "raised"}

\* Client.connect(): the socket is created and connected, or the exception
\* of the failure sets self.sock = None and is raised again.
ClientConnect(ok) ==
    /\ AtRest
    /\ cli' = IF ok
              THEN [cli EXCEPT !.sock = TRUE, !.pc = "idle", !.exc = "",
                               !.res = "unset", !.got = "", !.kind = "", !.eintr = 0]
              ELSE [cli EXCEPT !.sock = FALSE, !.pc = "raised", !.exc = "connect",
                               !.res = "unset", !.got = "", !.kind = "", !.eintr = 0]
    /\ UNCHANGED << http, listen, debugger, started, clients, loop, serv, backlog,
                    exitPipe, sockFile, conn, workers, stopper, sent >>

\* Client.send_request(request) begins: NotConnectedError without a socket.
ClientSendRequest(k) ==
    /\ AtRest
    /\ cli.calls < MaxCalls
    /\ cli' = IF cli.sock
              THEN [cli EXCEPT !.pc = "send", !.kind = k, !.calls = @ + 1, !.exc = "",
                               !.res = "unset", !.got = "", !.eintr = 0]
              ELSE [cli EXCEPT !.pc = "raised", !.kind = k, !.calls = @ + 1,
                               !.exc = "NotConnectedError",
                               !.res = "unset", !.got = "", !.eintr = 0]
    /\ UNCHANGED << http, listen, debugger, started, clients, loop, serv, backlog,
                    exitPipe, sockFile, conn, workers, stopper, sent >>

\* sendall raises socket.error with errno EINTR: continue.
ClientSendEintr ==
    /\ cli.pc = "send"
    /\ cli.eintr < MaxEintr
    /\ cli' = [cli EXCEPT !.eintr = @ + 1]
    /\ UNCHANGED << http, listen, debugger, started, clients, loop, serv, backlog,
                    exitPipe, sockFile, conn, workers, stopper, sent >>

\* A variant of the failed write that keeps self.sock.
ClientSendFailKeep ==
    /\ cli.pc = "send"
    /\ cli' = [cli EXCEPT !.pc = "raised", !.exc = "send"]
    /\ UNCHANGED << http, listen, debugger, started, clients, loop, serv, backlog,
                    exitPipe, sockFile, conn, workers, stopper, sent >>

\* sendall raises another socket.error: self.sock = None; raise.
ClientSendFail ==
    /\ cli.pc = "send"
    /\ cli' = [cli EXCEPT !.sock = FALSE, !.pc = "raised", !.exc = "send"]
    /\ UNCHANGED << http, listen, debugger, started, clients, loop, serv, backlog,
                    exitPipe, sockFile, conn, workers, stopper, sent >>

\* sendall returns, and 'res' is its result None; the receive loop begins.
ClientSendOk ==
    /\ cli.pc = "send"
    /\ cli' = [cli EXCEPT !.pc = "recv", !.res = "None", !.eintr = 0]
    /\ UNCHANGED << http, listen, debugger, started, clients, loop, serv, backlog,
                    exitPipe, sockFile, conn, workers, stopper, sent >>

\* recv raises socket.error with errno EINTR: continue.
ClientRecvEintr ==
    /\ cli.pc = "recv"
    /\ cli.eintr < MaxEintr
    /\ cli' = [cli EXCEPT !.eintr = @ + 1]
    /\ UNCHANGED << http, listen, debugger, started, clients, loop, serv, backlog,
                    exitPipe, sockFile, conn, workers, stopper, sent >>

\* recv raises another socket.error: raise, self.sock as it is.
ClientRecvFail ==
    /\ cli.pc = "recv"
    /\ cli' = [cli EXCEPT !.pc = "raised", !.exc = "recv"]
    /\ UNCHANGED << http, listen, debugger, started, clients, loop, serv, backlog,
                    exitPipe, sockFile, conn, workers, stopper, sent >>

\* recv returns a message: SocketDisconnected for an empty one, else the
\* parsing and 'return res'.
ClientRecv(shape) ==
    /\ cli.pc = "recv"
    /\ cli' = IF shape = "empty"
              THEN [cli EXCEPT !.pc = "raised", !.exc = "SocketDisconnected",
                               !.got = shape]
              ELSE [cli EXCEPT !.pc = "returned", !.got = shape,
                               !.res = Parsed(shape, cli.kind)]
    /\ UNCHANGED << http, listen, debugger, started, clients, loop, serv, backlog,
                    exitPipe, sockFile, conn, workers, stopper, sent >>

\* ------------------------------------------------------------ environment
\* A peer connects to the listener of loop l; n peers connect at most.
PeerConnect(l, n) ==
    /\ serv[l] = "listening"
    /\ \E c \in 1 .. n :
         /\ conn[c].st = "unused"
         /\ \A b \in Conns : conn[b].st = "unused" => c <= b
         /\ conn' = [conn EXCEPT ![c].st = "pending", ![c].peer = TRUE]
         /\ backlog' = [backlog EXCEPT ![l] = Append(@, c)]
    /\ UNCHANGED << http, cli, listen, debugger, started, clients, loop, serv, exitPipe,
                    sockFile, workers, stopper, sent >>

\* The peer of an accepted connection sends one message.
PeerSend(c) ==
    /\ conn[c].st = "open"
    /\ conn[c].peer
    /\ sent < MaxReqs
    /\ sent' = sent + 1
    /\ conn' = [conn EXCEPT ![c].inbox = Append(@, sent + 1)]
    /\ UNCHANGED << http, cli, listen, debugger, started, clients, loop, serv, backlog,
                    exitPipe, sockFile, workers, stopper >>

\* The peer of an accepted connection closes its end.
PeerClose(c) ==
    /\ conn[c].st = "open"
    /\ conn[c].peer
    /\ conn' = [conn EXCEPT ![c].peer = FALSE]
    /\ UNCHANGED << http, cli, listen, debugger, started, clients, loop, serv, backlog,
                    exitPipe, sockFile, workers, stopper, sent >>

\* ------------------------------------------------------------------- spec
\* The threads of the server while it serves.
Serve ==
    \/ Start
    \/ \E l \in Loops : RunBegin(l)
    \/ \E l \in Loops : SelectOk(l)
    \/ \E l \in Loops : IterAccept(l)
    \/ \E l \in Loops, p \in Payloads : IterRecv(l, p)
    \/ \E l \in Loops : HandleError(l)
    \/ \E l \in Loops : HandleWait(l)
    \/ \E l \in Loops : HandleSync(l)
    \/ \E l \in Loops : HandleReturn(l)
    \/ \E w \in workers : WorkerDispatch(w)
    \/ \E w \in workers : WorkerExit(w)

\* The except clause of the loop: a read that fails, and purge_client.
Purges ==
    \/ \E l \in Loops : IterRecvFail(l)
    \/ \E l \in Loops : IterRecvBlank(l)
    \/ \E l \in Loops : PurgeClose(l)
    \/ \E l \in Loops : PurgeRemove(l)

\* Server.stop and the way of a loop out of 'while running'.
Shutdown ==
    \/ StopDomain
    \/ StopTcp
    \/ StopEnd
    \/ \E l \in Loops : IterExit(l)
    \/ \E l \in Loops : CleanupNext(l)
    \/ \E l \in Loops : CleanupFinish(l)

\* What a loop meets only when another loop works on the same self.clients.
Shared ==
    \/ \E l \in Loops : SelectBadFd(l)
    \/ \E l \in Loops : PurgeRemoveGone(l)

\* Failures of the listener.
Faults == \E l \in Loops : IterAcceptFail(l)

\* Signals that interrupt a blocked select.
Signals == \E l \in Loops : SelectEintr(l)

\* Peers that connect and send.
Peers(n) ==
    \/ \E l \in Loops : PeerConnect(l, n)
    \/ \E c \in Conns : PeerSend(c)

\* Peers that go away.
Leavers == \E c \in Conns : PeerClose(c)

\* A server with one transport enabled, from start to stop.
Next == Serve \/ Purges \/ Shutdown \/ Signals \/ Faults \/ Peers(MaxConns) \/ Leavers

Spec == Init /\ [][Next]_vars

\* A server with one transport enabled, while it serves.
NextServe == Serve \/ Purges \/ Peers(MaxConns) \/ Leavers

SpecServe == Init /\ [][NextServe]_vars

\* The same, the threads of 'wait' requests scheduled: a handler that
\* terminates lets dispatch_request go on to its write.
FairServe == SpecServe /\ WF_vars(\E w \in workers : WorkerDispatch(w))

\* A server with one transport enabled, while it serves peers that stay:
\* no read fails, nothing is purged.
NextOpen == Serve \/ Peers(MaxConns)

SpecOpen == Init /\ [][NextOpen]_vars

\* The calls of the HTTP front end.
Http ==
    \/ \E p \in Payloads : HttpRequest(p)
    \/ HttpHandleError
    \/ HttpHandleWait
    \/ HttpHandleSync

\* The domain socket and the HTTP front end enabled.
InitHttp == InitWith({{"d", "h"}})

\* A server with the domain socket and the HTTP front end, while it serves
\* peers that stay.
NextHttp == Serve \/ Http \/ Peers(MaxConnsBoth)

SpecHttp == InitHttp /\ [][NextHttp]_vars

\* The calls made on a Client object and the steps of send_request.
ClientCalls ==
    \/ \E ok \in BOOLEAN : ClientConnect(ok)
    \/ \E k \in Kinds : ClientSendRequest(k)
    \/ ClientSendEintr
    \/ ClientSendFail
    \/ ClientSendOk
    \/ ClientRecvEintr
    \/ ClientRecvFail
    \/ \E shape \in Shapes : ClientRecv(shape)

\* A Client in a process of its own.
SpecClient == Init /\ [][ClientCalls]_vars

\* Both transports and the HTTP front end enabled.
InitAll == InitWith({{"d", "t", "h"}})

\* A server with everything enabled, from start to stop, its peers staying.
NextStop == Serve \/ Purges \/ Shared \/ Shutdown \/ Peers(MaxConnsBoth)

SpecStop == InitAll /\ [][NextStop]_vars

\* The same, with Server.stop going on: join(10) returns after ten seconds
\* at the latest whatever the thread joined does.
FairStop == SpecStop /\ WF_vars(StopTcp) /\ WF_vars(StopEnd)

\* A step of the thread of loop l.
LoopStep(l) ==
    \/ RunBegin(l)
    \/ SelectOk(l)
    \/ SelectBadFd(l)
    \/ IterAccept(l)
    \/ IterExit(l)
    \/ \E p \in Payloads : IterRecv(l, p)
    \/ IterRecvFail(l)
    \/ IterRecvBlank(l)
    \/ HandleError(l)
    \/ HandleWait(l)
    \/ HandleSync(l)
    \/ HandleReturn(l)
    \/ PurgeClose(l)
    \/ PurgeRemove(l)
    \/ PurgeRemoveGone(l)
    \/ CleanupNext(l)
    \/ CleanupFinish(l)

\* A server with everything enabled whose loop threads are scheduled and
\* whose handlers terminate: a loop that can take a step takes one.
FairLoops == FairStop /\ \A l \in Loops : WF_vars(LoopStep(l))

\* A server with both transports enabled, while it serves.
NextBoth == Serve \/ Purges \/ Shared \/ Signals \/ Peers(MaxConnsBoth) \/ Leavers

SpecBoth == InitBoth /\ [][NextBoth]_vars

\* ----------------------------------------------------------------- claims
Open(c) == conn[c].st = "open" /\ conn[c].peer

\* The writes that answer request n, on any connection.
Answers(n) ==
    { << c, k >> \in Conns \X (1 .. MaxReqs) :
        k <= Len(conn[c].outbox) /\ conn[c].outbox[k].id = n }

\* C1: a loop that is given a well-formed 'wait' request with a debugger
\* attached starts a thread for it, writes nothing and finds itself back
\* from handle_request at once; and a loop back from handle_request is free
\* to go on while that thread has not finished.
C1_WaitReturnsToLoop ==
    /\ [][\A l \in Loops :
            ( /\ loop[l].pc = "handle"
              /\ debugger /\ loop[l].data.env /\ loop[l].data.kind = "wait"
              /\ loop'[l] # loop[l] )
            => /\ loop'[l].pc = "handled"
               /\ conn' = conn
               /\ \E w \in workers' \ workers :
                    ~w.done /\ w.client = loop[l].cur /\ w.req = loop[l].data]_vars
    /\ [](\A l \in Loops : loop[l].pc = "handled" => ENABLED HandleReturn(l))

\* C1, witness: the thread of A's 'wait' request has not finished, nothing
\* is written to A, and B, accepted after the thread started, has its answer.
C1_Witness ==
    \E w \in workers : \E b \in Conns :
        /\ ~w.done
        /\ conn[w.client].outbox = <<>>
        /\ b # w.client
        /\ conn[b].ord > w.born
        /\ conn[b].outbox # <<>>
        /\ \E l \in Loops : /\ loop[l].pc = "handled"
                            /\ loop[l].cur = b
                            /\ loop[l].ret.res.code = "Success"

\* C2: a response is written only to the connection its request came from;
\* no request is answered twice; the thread of a 'wait' request whose
\* handler has terminated has written the response to the request's
\* connection if that is still open; and every thread started for a 'wait'
\* request leads to that response, or to the connection being closed.
C2_ExactlyOneResponse ==
    /\ [](\A c \in Conns : \A k \in 1 .. Len(conn[c].outbox) :
            conn[c].outbox[k].conn = c)
    /\ [](\A n \in 1 .. MaxReqs : Cardinality(Answers(n)) <= 1)
    /\ [](\A w \in workers :
            (w.done /\ Open(w.client))
            => \E k \in 1 .. Len(conn[w.client].outbox) :
                 conn[w.client].outbox[k] = Entry(w.req, "thread"))
    /\ \A c \in Conns : \A n \in 1 .. MaxReqs :
         (\E w \in workers : ~w.done /\ w.client = c /\ w.req.id = n)
         ~> (Answers(n) # {} \/ ~Open(c))

\* C2, witness: the handler of a 'wait' request has terminated, its
\* connection is open and holds the thread's response after the response to
\* a later request.
C2_Witness ==
    \E w \in workers :
        /\ w.done
        /\ Open(w.client)
        /\ Len(conn[w.client].outbox) = 2
        /\ conn[w.client].outbox[2] = Entry(w.req, "thread")

\* C3: on every connection the responses to requests handled on a loop's
\* thread are written in the order in which the requests arrived.
C3_ArrivalOrder ==
    \A c \in Conns : \A i, j \in 1 .. Len(conn[c].outbox) :
        ( /\ i < j
          /\ conn[c].outbox[i].by = "loop"
          /\ conn[c].outbox[j].by = "loop" )
        => conn[c].outbox[i].id < conn[c].outbox[j].id

\* C4: a loop has in its ready list, reads from and purges only the
\* connections it accepted itself.
C4_RegistryPrivate ==
    \A l \in Loops :
        /\ \A k \in 1 .. Len(loop[l].rfds) :
             loop[l].rfds[k] \in Conns => conn[loop[l].rfds[k]].by = l
        /\ loop[l].cur # 0 => conn[loop[l].cur].by = l

\* C5: a loop that has reached Stopped has closed its listener, closed every
\* connection it accepted and left the registry empty.
C5_DrainPurgesAll ==
    \A l \in Loops :
        loop[l].pc = "stopped"
        => /\ serv[l] = "closed"
           /\ clients = <<>>
           /\ \A c \in Conns : conn[c].by = l => conn[c].st = "closed"

\* C6: a step of purge_client for a connection whose read failed leaves the
\* loop running and every other connection as it was, registered or not.
C6_PurgeOnlyThatConnection ==
    [][\A l \in Loops :
        ( /\ loop[l].pc \in {"purge", "remove"}
          /\ loop[l].phase = "run"
          /\ loop'[l] # loop[l] )
        => /\ loop'[l].pc # "crashed"
           /\ \A c \in Conns \ {loop[l].cur} :
                /\ conn'[c] = conn[c]
                /\ (c \in Range(clients')) = (c \in Range(clients))]_vars

\* C7: a loop ended by the failure of select has seen three attempts of
\* that iteration interrupted, and none succeed.
C7_FatalOnlyAfterThreeInterrupts ==
    \A l \in Loops :
        loop[l].crash = "select.error"
        => loop[l].attempts = << "eintr", "eintr", "eintr" >>

C10_MissingFieldStopsDispatch ==
    /\ \A l \in Loops :
         ( /\ loop[l].pc = "handled"
           /\ "validate" \in loop[l].ret.stages
           /\ loop[l].data.missing # "" )
         => /\ loop[l].ret.res = Res("MissingFieldError", loop[l].data.missing)
            /\ "dispatch" \notin loop[l].ret.stages
    /\ \A w \in workers :
         (w.done /\ w.req.missing # "")
         => /\ w.ret.res = Res("MissingFieldError", w.req.missing)
            /\ "dispatch" \notin w.ret.stages

\* C10, witness: the thread of a 'wait' request that lacks a field has
\* finished while the loop is back from a request that lacks another.
C10_Witness ==
    \E w \in workers : \E l \in Loops :
        /\ w.done /\ w.req.missing = "timeout"
        /\ w.ret.res.code = "MissingFieldError"
        /\ loop[l].pc = "handled"
        /\ loop[l].data.kind = "version" /\ loop[l].data.missing = "name"
        /\ loop[l].ret.res.code = "MissingFieldError"

\* C11: a call of handle_request for a valid request whose handler raises
\* returns to the loop with the GenericError response, the connection still
\* open and registered, and the loop goes on from there to its next
\* descriptor or its next select; a thread whose handler raised has ended
\* dispatch_request with the GenericError response.
C11_HandlerFailureContained ==
    /\ [][\A l \in Loops :
            ( /\ loop[l].pc \in {"handle", "handled"}
              /\ Preflight(loop[l].data).res = None
              /\ Validate(loop[l].data) = ""
              /\ Execute(loop[l].data) = "raise"
              /\ loop'[l] # loop[l] )
            => /\ loop'[l].pc \in {"handled", "iter", "select"}
               /\ loop'[l].crash = ""
               /\ clients' = clients
               /\ conn'[loop[l].cur].st = conn[loop[l].cur].st
               /\ ( loop[l].pc = "handle" /\ ~IsWait(loop[l].data) )
                  => loop'[l].ret.res.code = "GenericError"]_vars
    /\ [](\A w \in workers :
            (w.done /\ Validate(w.req) = "" /\ Execute(w.req) = "raise")
            => w.ret.res.code = "GenericError")

\* C11, witness: the loop is back from a request whose handler raised, the
\* response is on the connection, and the thread of a 'wait' request whose
\* handler raised has finished.
C11_Witness ==
    \E l \in Loops : \E w \in workers :
        /\ loop[l].pc = "handled"
        /\ loop[l].data.raises
        /\ loop[l].ret.res.code = "GenericError"
        /\ Entry(loop[l].data, "loop") \in Range(conn[loop[l].cur].outbox)
        /\ w.done /\ w.req.raises
        /\ conn[loop[l].cur].st = "open"

\* C12: a call of handle_request without a connection has returned a
\* response: the error response of the preprocessing, or else the response
\* dispatch_request computes for the request, whatever its kind.
C12_HttpReturnsResponse ==
    http.pc = "returned"
    => /\ http.value # None
       /\ http.value = IF Preflight(http.data).res # None
                       THEN Preflight(http.data).res
                       ELSE DispatchRequest(http.data).res

\* C13: a call of send_request that received a message that is not empty
\* has not returned None, and after a failed re-parse into the response
\* class of the plugin it has returned the generic response.
C13_ParseFailureSurfaced ==
    (cli.pc = "returned" /\ cli.got # "empty")
    => /\ cli.res # "None"
       /\ (cli.got = "odd" /\ cli.kind \in Registered) => cli.res = "APIResponse"

\* C14: connect or the write of send_request that has just raised has left
\* the Client without a socket; an interrupted write stays in the write
\* loop with the socket, and a write ends only by succeeding, the socket
\* kept, or by raising.
C14_DisconnectedAfterFailure ==
    /\ []((cli.pc = "raised" /\ cli.exc \in {"connect", "send"}) => ~cli.sock)
    /\ [][(cli.pc = "send" /\ cli' # cli)
            => \/ cli'.pc = "send" /\ cli'.sock /\ cli'.eintr = cli.eintr + 1
               \/ cli'.pc = "recv" /\ cli'.sock
               \/ cli'.pc = "raised" /\ cli'.exc = "send"]_vars
    /\ [][(AtRest /\ cli' # cli /\ cli'.calls = cli.calls)
            => \/ cli'.sock /\ cli'.pc = "idle"
               \/ cli'.pc = "raised" /\ cli'.exc = "connect"]_vars

\* C14, witness: a write that was interrupted and tried again has then
\* failed for good, on a Client that was connected.
C14_Witness ==
    /\ cli.pc = "raised"
    /\ cli.exc = "send"
    /\ cli.eintr > 0
    /\ ~cli.sock

\* C15: a read that sends a connection to purge_client returned nothing
\* from a peer that closed, or failed on a socket already closed: no read
\* of bytes a live peer sent does.
C15_DisconnectOnlyOnZeroBytes ==
    [][\A l \in Loops :
        (loop[l].pc = "iter" /\ loop'[l].pc = "purge")
        => LET c == loop'[l].cur IN
             \/ conn[c].st = "closed"
             \/ conn[c].inbox = <<>> /\ ~conn[c].peer]_vars

\* The exit byte of loop l has been written: it is in the pipe, or the loop
\* has read it.
Signalled(l) == exitPipe[l].bytes > 0 \/ loop[l].phase = "drain"

\* C16: a call of Server.stop that has passed its first join has signalled
\* the domain loop, one that has passed its second join has signalled the
\* TCP loop too, one that has ended has also stopped the HTTP front end;
\* and a call that has signalled the domain loop ends, whatever the loops
\* do.
C16_StopAttemptsAll ==
    /\ [](stopper \in {"join_d", "join_t", "done"}
            => ("d" \in listen => Signalled("d")))
    /\ [](stopper \in {"join_t", "done"}
            => ("t" \in listen => Signalled("t")))
    /\ [](stopper = "done" => ("h" \in listen => http.engine = "exited"))
    /\ (stopper = "join_d") ~> (stopper = "done")

\* C16, witness: stop has ended with the TCP loop signalled and the HTTP
\* front end stopped while the domain loop, signalled first, has not read
\* its exit byte and is still handling a request.
C16_Witness ==
    /\ stopper = "done"
    /\ listen = {"d", "t", "h"}
    /\ exitPipe["d"].bytes > 0
    /\ loop["d"].pc = "handle"
    /\ Signalled("t")
    /\ http.engine = "exited"

\* C17: a loop that is running when its exit byte is in the pipe reaches
\* Stopped.
C17_SignalledLoopStops ==
    \A l \in Loops :
        (exitPipe[l].bytes > 0 /\ loop[l].pc \notin {"none", "crashed"})
        ~> (loop[l].pc = "stopped")

C19_AfterExitOnlyCleanup ==
    [][\A l \in Loops :
        (loop[l].phase = "drain" /\ loop'[l] # loop[l])
        => /\ loop'[l].pc \in {"cleanup", "purge", "remove", "stopped"}
           /\ backlog' = backlog
           /\ workers' = workers
           /\ \A c \in Conns : /\ conn'[c].inbox = conn[c].inbox
                                /\ conn'[c].outbox = conn[c].outbox]_vars

\* C19, witness: a loop has stopped having closed a connection whose
\* request it never read.
C19_Witness ==
    \E l \in Loops : \E c \in Conns :
        /\ loop[l].pc = "stopped"
        /\ conn[c].by = l
        /\ conn[c].st = "closed"
        /\ conn[c].inbox # <<>>

\* C19, as stated: a loop whose ready set holds its exit pipe accepts no
\* connection and takes up no request from then on.
C19_NothingOnceExitReady ==
    [][\A l \in Loops :
        ( /\ loop[l].pc = "iter"
          /\ EXITP \in Range(loop[l].rfds)
          /\ loop'[l] # loop[l] )
        => /\ clients' = clients
           /\ backlog' = backlog
           /\ loop'[l].pc # "handle"]_vars

====
